---- MODULE Spec2Model ----
(***************************************************************************)
(* FM radio application: the preset store (js/models/stations.js), the     *)
(* tuner session (js/models/radio.js) and the handlers of the main and     *)
(* station-list views (js/views/main.js) that drive them.                  *)
(*                                                                         *)
(* Frequencies are integers in units of 0.1 MHz (87.5 MHz is 875).         *)
(***************************************************************************)
EXTENDS Integers, Sequences, FiniteSets, TLC

\* ------------------------------------------------------------------ bounds

\* Seeks the device accepts before it has answered the earlier ones.
MaxPendingSeeks == 2

\* Number of 0.1 MHz steps of the band that the model explores above the
\* lower edge (the real band has 205 of them).
BandSteps == 1

\* Width, in steps of 0.1 MHz, of the band swept when the progress of a
\* scan is examined.
ProgressSteps == 4

\* ------------------------------------------------------- program constants

\* radio.js: minFrequency = 87.5
MinFrequencyDefault == 875

\* radio.js: maxFrequency = 108.0, cut down to BandSteps steps above the
\* lower edge.
MaxFrequencyDefault == MinFrequencyDefault + BandSteps

\* The frequencies of the band.
Band == MinFrequencyDefault..MaxFrequencyDefault

\* Frequencies a caller may hand to the store, which checks none of them:
\* the band and one step outside it on either side.
QueryFreqs == (MinFrequencyDefault - 1)..(MaxFrequencyDefault + 1)

\* Names typed by the user (popup.nameValidator admits 1..10 characters):
\* those handed to the store when it is driven directly, and the one typed
\* into the popups of the application.
UserNames == {"A", "B"}

TypedNames == {"A"}

\* The third argument of save: true, false, or left out by the caller.
Overwrites == {"true", "false", "undefined"}

\* stations.js: getStationName's marker for "no preset at this frequency".
UNNAMED == "UNNAMED"

\* What a JavaScript property read on undefined produces.
TypeError == "TypeError"

\* radio.js RADIO_STATE, and the third state of the device.
RADIO_STATE_PLAY == "PLAYING"

RADIO_STATE_SCAN == "SCANNING"

RADIO_STATE_READY == "READY"

\* A JavaScript undefined where a frequency is expected.
Undefined == 0 - 1

VARIABLES
    stationList,        \* stations.js: stationList
    lastFrequency,      \* stations.js: lastFrequency
    dbStations,         \* storage: value last written under key 'stations'
    dbLastFrequency,    \* storage: value last written under 'lastFrequency'
    idbReady,           \* storage: idb.isReady()
    reads,              \* storage: the idb.get requests not answered yet
    phase,              \* "boot" until main.initialize has run, then "run"
    frequencyLowerBound,\* device: tizen.fmradio.frequencyLowerBound
    frequencyUpperBound,\* device: tizen.fmradio.frequencyUpperBound
    radioMute,          \* device: tizen.fmradio.mute
    radioState,         \* device: tizen.fmradio.state
    radioFrequency,     \* device: tizen.fmradio.frequency
    seekPending,        \* device: seeks issued and not yet answered
    scanFound,          \* device: frequencies found by the running scan
    scanStopPending,    \* device: a scanStop issued and not yet answered
    minFrequency,       \* radio.js: minFrequency
    maxFrequency,       \* radio.js: maxFrequency
    stationCount,       \* radio.js: stationCount
    frequencyBeforeScan,\* radio.js: frequencyBeforeScan
    buttonBlock,        \* main.js: buttonBlock
    stationButtons,     \* main.js: the next/previous preset buttons are enabled
    popup,              \* popup.js: what the main page's popup shows: "none",
                        \* "progress", or the title and text of a text popup
    scanOrigin,         \* the tuned frequency when the device launched the
                        \* scan that is running, 0 while none runs
    calls,              \* the session operations the latest step invoked
    last                \* the call made by the latest step, its arguments,
                        \* the collection it found and what it returned

storeVars == <<stationList, lastFrequency, dbStations, dbLastFrequency>>

idbVars == <<idbReady, reads>>

\* The attributes of the device that tuning, seeking and scanning leave
\* alone: its bounds and its mute setting.
boundVars == <<frequencyLowerBound, frequencyUpperBound, radioMute>>

deviceVars == <<radioState, radioFrequency, seekPending, scanFound, scanStopPending>>

sessionVars == <<minFrequency, maxFrequency, stationCount, frequencyBeforeScan, scanOrigin>>

viewVars == <<buttonBlock, popup, stationButtons>>

appVars == <<idbVars, phase, boundVars, deviceVars, sessionVars, viewVars, calls>>

vars == <<storeVars, appVars, last>>

\* ------------------------------------------------------------ PresetStore

Station(name, frequency) == [name |-> name, frequency |-> frequency]

\* The frequencies and the presets a collection holds.
Frequencies(list) == {list[i].frequency : i \in 1..Len(list)}

Presets(list) == {list[i] : i \in 1..Len(list)}

\* stations.js compare(a, b)
compare(a, b) == a.frequency - b.frequency

\* Array.prototype.sort(compare): stable insertion of every element into
\* the sorted prefix.
RECURSIVE InsertSorted(_, _)
InsertSorted(sorted, x) ==
    IF sorted = <<>> THEN <<x>>
    ELSE IF compare(x, Head(sorted)) < 0 THEN <<x>> \o sorted
    ELSE <<Head(sorted)>> \o InsertSorted(Tail(sorted), x)

RECURSIVE SortBy(_)
SortBy(list) ==
    IF list = <<>> THEN <<>>
    ELSE InsertSorted(SortBy(SubSeq(list, 1, Len(list) - 1)), list[Len(list)])

\* The loop "for (i = 0; i < length; i += 1) if (station.frequency ===
\* frequency)": the first index holding the frequency, 0 when there is none.
FindFrequency(list, frequency) ==
    IF \E i \in 1..Len(list) : list[i].frequency = frequency
    THEN CHOOSE i \in 1..Len(list) :
            /\ list[i].frequency = frequency
            /\ \A j \in 1..(i - 1) : list[j].frequency # frequency
    ELSE 0

\* JSON.stringify(stationList): the encoded ordered list.
Stringify(list) ==
    [i \in 1..Len(list) |-> <<"name", list[i].name, "frequency", list[i].frequency>>]

\* JSON.parse(data.value)
Parse(text) ==
    [i \in 1..Len(text) |-> Station(text[i][2], text[i][4])]

\* getStationName that answers with the name of the first preset.
getStationNameFirst(list, freq) ==
    IF list # <<>> THEN list[1].name ELSE UNNAMED

\* stations.js getStationName(freq)
getStationName(list, freq) ==
    LET i == FindFrequency(list, freq)
    IN  IF i # 0 THEN list[i].name ELSE UNNAMED

\* save without the lookup: every call pushes.
SaveListAlwaysPush(list, name, frequency, overwrite) ==
    SortBy(Append(list, Station(name, frequency)))

\* save that pushes without sorting.
SaveListNoSort(list, name, frequency, overwrite) ==
    LET i == FindFrequency(list, frequency)
    IN  IF i # 0
        THEN IF overwrite = "true" THEN [list EXCEPT ![i].name = name] ELSE list
        ELSE Append(list, Station(name, frequency))

\* save that renames whatever the overwrite flag says.
SaveListAlwaysRename(list, name, frequency, overwrite) ==
    LET i == FindFrequency(list, frequency)
    IN  IF i # 0
        THEN [list EXCEPT ![i].name = name]
        ELSE SortBy(Append(list, Station(name, frequency)))

\* stations.js save(name, frequency, overwrite): the collection it leaves.
SaveList(list, name, frequency, overwrite) ==
    LET i == FindFrequency(list, frequency)
    IN  IF i # 0
        THEN IF overwrite = "true" THEN [list EXCEPT ![i].name = name] ELSE list
        ELSE SortBy(Append(list, Station(name, frequency)))

\* remove that splices at the end of the list when nothing matches.
RemoveListSpliceLast(list, frequency) ==
    LET i == FindFrequency(list, frequency)
    IN  IF i # 0
        THEN SubSeq(list, 1, i - 1) \o SubSeq(list, i + 1, Len(list))
        ELSE SubSeq(list, 1, Len(list) - 1)

\* stations.js remove(frequency): splice(i, 1) at the first match.
RemoveList(list, frequency) ==
    LET i == FindFrequency(list, frequency)
    IN  IF i # 0
        THEN SubSeq(list, 1, i - 1) \o SubSeq(list, i + 1, Len(list))
        ELSE list

\* nextStation with ">=" in place of ">".
nextStationNotStrict(list, freq) ==
    IF \E i \in 1..Len(list) : list[i].frequency >= freq
    THEN list[CHOOSE i \in 1..Len(list) :
                /\ list[i].frequency >= freq
                /\ \A j \in 1..(i - 1) : ~(list[j].frequency >= freq)].frequency
    ELSE IF list = <<>> THEN TypeError ELSE list[1].frequency

\* stations.js nextStation(freq): the first preset above freq in list
\* order, else stationList[0].frequency.
nextStation(list, freq) ==
    IF \E i \in 1..Len(list) : list[i].frequency > freq
    THEN list[CHOOSE i \in 1..Len(list) :
                /\ list[i].frequency > freq
                /\ \A j \in 1..(i - 1) : ~(list[j].frequency > freq)].frequency
    ELSE IF list = <<>> THEN TypeError ELSE list[1].frequency

\* prevStation with "<=" in place of "<".
prevStationNotStrict(list, freq) ==
    IF \E i \in 1..Len(list) : list[i].frequency <= freq
    THEN list[CHOOSE i \in 1..Len(list) :
                /\ list[i].frequency <= freq
                /\ \A j \in (i + 1)..Len(list) : ~(list[j].frequency <= freq)].frequency
    ELSE IF list = <<>> THEN TypeError ELSE list[Len(list)].frequency

\* prevStation that wraps to the first preset instead of the last.
prevStationWrapFirst(list, freq) ==
    IF \E i \in 1..Len(list) : list[i].frequency < freq
    THEN list[CHOOSE i \in 1..Len(list) :
                /\ list[i].frequency < freq
                /\ \A j \in (i + 1)..Len(list) : ~(list[j].frequency < freq)].frequency
    ELSE IF list = <<>> THEN TypeError ELSE list[1].frequency

\* stations.js prevStation(freq): the last preset below freq in list
\* order, else stationList[stationsLen - 1].frequency.
prevStation(list, freq) ==
    IF \E i \in 1..Len(list) : list[i].frequency < freq
    THEN list[CHOOSE i \in 1..Len(list) :
                /\ list[i].frequency < freq
                /\ \A j \in (i + 1)..Len(list) : ~(list[j].frequency < freq)].frequency
    ELSE IF list = <<>> THEN TypeError ELSE list[Len(list)].frequency

\* saveToDatabase that writes the presets alone.
SaveToDatabaseStationsOnly(list, frequency) ==
    /\ dbStations' = <<Stringify(list)>>
    /\ UNCHANGED dbLastFrequency

\* stations.js saveToDatabase(), given the values the module holds when it
\* runs. A key of the storage holds <<>> while nothing was written under it
\* and <<text>> afterwards.
SaveToDatabase(list, frequency) ==
    /\ dbStations' = <<Stringify(list)>>
    /\ dbLastFrequency' = frequency

\* The record of a call: its name, arguments, the collection before it and
\* its result.
Call(op, name, frequency, overwrite, ret) ==
    [op |-> op, name |-> name, frequency |-> frequency, overwrite |-> overwrite,
     frequencies |-> <<>>, before |-> stationList, ret |-> ret]

NoCall == [op |-> "none", name |-> "", frequency |-> 0, overwrite |-> "undefined",
           frequencies |-> <<>>, before |-> <<>>, ret |-> 0]

\* ---------------------------------------------- the store driven directly

StoreSave(name, frequency, overwrite) ==
    /\ stationList' = SaveList(stationList, name, frequency, overwrite)
    /\ SaveToDatabase(stationList', lastFrequency)
    /\ last' = Call("save", name, frequency, overwrite, 0)
    /\ UNCHANGED <<lastFrequency, appVars>>

StoreRemove(frequency) ==
    /\ stationList' = RemoveList(stationList, frequency)
    /\ SaveToDatabase(stationList', lastFrequency)
    /\ last' = Call("remove", "", frequency, "undefined", 0)
    /\ UNCHANGED <<lastFrequency, appVars>>

StoreRemoveAll ==
    /\ stationList' = <<>>
    /\ SaveToDatabase(stationList', lastFrequency)
    /\ last' = Call("removeAll", "", 0, "undefined", 0)
    /\ UNCHANGED <<lastFrequency, appVars>>

StoreSetLastFrequency(frequency) ==
    /\ lastFrequency' = frequency
    /\ SaveToDatabase(stationList, lastFrequency')
    /\ last' = Call("setLastFrequency", "", frequency, "undefined", 0)
    /\ UNCHANGED <<stationList, appVars>>

StoreNextStation(freq) ==
    /\ last' = Call("nextStation", "", freq, "undefined", nextStation(stationList, freq))
    /\ UNCHANGED <<storeVars, appVars>>

StorePrevStation(freq) ==
    /\ last' = Call("prevStation", "", freq, "undefined", prevStation(stationList, freq))
    /\ UNCHANGED <<storeVars, appVars>>

StoreGetStationName(freq) ==
    /\ last' = Call("getStationName", "", freq, "undefined", getStationName(stationList, freq))
    /\ UNCHANGED <<storeVars, appVars>>

\* The application after a first start on an empty storage: both reads
\* have answered with nothing, main.js init() has run, and the radio plays
\* at the lower bound of the band.
Init ==
    /\ stationList = <<>>
    /\ lastFrequency = 0
    /\ dbStations = <<>>
    /\ dbLastFrequency = 0
    /\ idbReady = TRUE
    /\ reads = {}
    /\ phase = "run"
    /\ frequencyLowerBound = MinFrequencyDefault
    /\ frequencyUpperBound = MaxFrequencyDefault
    /\ radioMute = FALSE
    /\ radioState = RADIO_STATE_PLAY
    /\ radioFrequency = frequencyLowerBound
    /\ seekPending = 0
    /\ scanFound = <<>>
    /\ scanStopPending = FALSE
    /\ minFrequency = MinFrequencyDefault
    /\ maxFrequency = MaxFrequencyDefault
    /\ stationCount = 0
    /\ frequencyBeforeScan = 0
    /\ buttonBlock = FALSE
    /\ stationButtons = FALSE
    /\ popup = "none"
    /\ scanOrigin = 0
    /\ calls = <<>>
    /\ last = NoCall

NextStore ==
    \/ \E name \in UserNames, frequency \in QueryFreqs, overwrite \in Overwrites :
            StoreSave(name, frequency, overwrite)
    \/ \E frequency \in QueryFreqs : StoreRemove(frequency)
    \/ StoreRemoveAll
    \/ \E frequency \in QueryFreqs : StoreSetLastFrequency(frequency)
    \/ \E freq \in QueryFreqs : StoreNextStation(freq)
    \/ \E freq \in QueryFreqs : StorePrevStation(freq)
    \/ \E freq \in QueryFreqs : StoreGetStationName(freq)

SpecStore == Init /\ [][NextStore]_vars

\* ------------------------------------------------------------ TunerSession

\* radio.js getFrequency(): Math.round(radio.frequency * 10) / 10. With
\* frequencies counted in 0.1 MHz, the hundredths are rounded half up to
\* the next whole count.
Round(hundredths) == (hundredths + 5) \div 10

getFrequency(frequency) == Round(frequency * 10)

\* start that forwards to the device in every state.
StartAllowedAlways(state) == TRUE

\* radio.js start: "radio.state !== RADIO_STATE.SCAN"
StartAllowed(state) == state # RADIO_STATE_SCAN

\* stop guarded like start: forwarded unless the device scans.
StopAllowedNotScanning(state) == state # RADIO_STATE_SCAN

\* radio.js stop: "radio.state === RADIO_STATE.PLAY"
StopAllowed(state) == state = RADIO_STATE_PLAY

\* seek guarded like start: forwarded unless the device scans.
SeekAllowedNotScanning(state) == state # RADIO_STATE_SCAN

\* radio.js seekUp, seekDown: "radio.state === RADIO_STATE.PLAY"
SeekAllowed(state) == state = RADIO_STATE_PLAY

\* scanStop that asks the device in every state.
ScanStopAllowedAlways(state) == TRUE

\* radio.js scanStop: "radio.state === RADIO_STATE.SCAN"
ScanStopAllowed(state) == state = RADIO_STATE_SCAN

\* scanStart that leaves a playing device playing.
StoppedForScanNever(state) == state

\* radio.js scanStart: "if (radio.state === RADIO_STATE.PLAY) radio.stop()",
\* the state of the device afterwards.
StoppedForScan(state) ==
    IF state = RADIO_STATE_PLAY THEN RADIO_STATE_READY ELSE state

\* One session operation invoked by a step: the handler that invoked it,
\* the device state it found, and whether it invoked the device primitive.
SessionCall(fn, by, state, device) ==
    [fn |-> fn, by |-> by, state |-> state, device |-> device]

\* start that never reaches the device.
startNever(state, frequency, freq, fallback) ==
    [state |-> state, frequency |-> frequency]

\* radio.js start(freq) on a device in `state` at `frequency`: the device
\* state and frequency afterwards. The device tunes to the frequency it is
\* given and plays; given undefined it plays at `fallback`.
start(state, frequency, freq, fallback) ==
    IF StartAllowed(state)
    THEN [state |-> RADIO_STATE_PLAY,
          frequency |-> IF freq = Undefined THEN fallback ELSE freq]
    ELSE [state |-> state, frequency |-> frequency]

\* radio.js: the bounds the module exports, "minFrequency: minFrequency,
\* maxFrequency: maxFrequency", evaluated when the module is defined.
ExportedMinFrequency == MinFrequencyDefault

ExportedMaxFrequency == MaxFrequencyDefault

\* tune that stops at the bound it has crossed.
WrapClamp(frequency) ==
    IF frequency = Undefined THEN frequency
    ELSE IF frequency < MinFrequencyDefault THEN MinFrequencyDefault
    ELSE IF frequency > MaxFrequencyDefault THEN MaxFrequencyDefault
    ELSE frequency

\* main.js tune: the frequency it forwards to radio.start. Comparisons
\* with undefined are false.
Wrap(frequency) ==
    IF frequency = Undefined THEN frequency
    ELSE IF frequency < ExportedMinFrequency THEN ExportedMaxFrequency
    ELSE IF frequency > ExportedMaxFrequency THEN ExportedMinFrequency
    ELSE frequency

\* onFrequencyFound that hands over the fraction of the band, not the
\* percentage.
ProgressFraction(frequency) ==
    [num |-> frequency - minFrequency, den |-> maxFrequency - minFrequency]

\* radio.js onFrequencyFound: progress = ((frequency - min) * 1000) / range
\* with range = max * 10 - min * 10, kept as a fraction.
Progress(frequency) ==
    [num |-> (frequency - minFrequency) * 100, den |-> maxFrequency - minFrequency]

\* popup.js updateProgress: "progressValue === 100"
ClosesPopup(progress) == progress.den # 0 /\ progress.num = 100 * progress.den

\* "Station " + (i + 1) for the 0-based index i of radio.js onFinished.
StationName(i) == "Station " \o ToString(i)

\* The loop naming the presets by the 0-based index.
RECURSIVE SaveFoundZeroBased(_, _, _)
SaveFoundZeroBased(list, frequencies, n) ==
    IF n = 0 THEN list
    ELSE SaveList(SaveFoundZeroBased(list, frequencies, n - 1),
                  StationName(n - 1), frequencies[n], "undefined")

\* The loop asking save to overwrite.
RECURSIVE SaveFoundOverwrite(_, _, _)
SaveFoundOverwrite(list, frequencies, n) ==
    IF n = 0 THEN list
    ELSE SaveList(SaveFoundOverwrite(list, frequencies, n - 1),
                  StationName(n), frequencies[n], "true")

\* The loop of radio.js onFinished: stations.save('Station ' + (i + 1),
\* frequencies[i]) for the first n discovered frequencies.
RECURSIVE SaveFound(_, _, _)
SaveFound(list, frequencies, n) ==
    IF n = 0 THEN list
    ELSE SaveList(SaveFound(list, frequencies, n - 1),
                  StationName(n), frequencies[n], "undefined")

\* The band the device reports.
DeviceBand == frequencyLowerBound..frequencyUpperBound

\* ------------------------------------------------------------ view helpers

\* main.js refreshStationButtons() on the collection `list`: the next and
\* previous preset buttons are enabled when it holds more than one preset.
refreshStationButtons(list) == Len(list) > 1

\* main.js refreshStation(), run with the collection `list` on a device at
\* `frequency`: unblocks the seek buttons and stores the last frequency.
refreshStation(list, frequency) ==
    /\ buttonBlock' = FALSE
    /\ stationButtons' = refreshStationButtons(list)
    /\ stationList' = list
    /\ lastFrequency' = getFrequency(frequency)
    /\ SaveToDatabase(list, lastFrequency')

\* main.js tune(frequency), run with the collection `list` on a device in
\* `state`: wrap, radio.start, refreshStation.
tune(by, frequency, list, state, fallback) ==
    LET dev == start(state, radioFrequency, Wrap(frequency), fallback)
    IN  /\ radioState' = dev.state
        /\ radioFrequency' = dev.frequency
        /\ refreshStation(list, dev.frequency)
        /\ calls' = <<SessionCall("start", by, state, StartAllowed(state))>>

\* popup.js showPopup with a text popup: the title and the text it
\* shows.
PopupText(title, text) == title \o ": " \o text

\* The errors the device hands to an error callback, and the reasons it
\* gives for an interruption.
DeviceErrors ==
    {[name |-> "UnknownError", message |-> "operation failed"],
     [name |-> "InvalidStateError", message |-> "wrong state"]}

InterruptReasons == {"call"}

\* errorCallback that shows the name of the error alone.
errorCallbackNoMessage(error) == PopupText(error.name, "")

\* radio.js errorCallback(error): the popup it shows.
errorCallback(error) == PopupText(error.name, error.message)

\* The record of an error the device has reported.
ErrorCall(error) ==
    [NoCall EXCEPT !.op = "errorCallback", !.name = error.name, !.ret = error.message]

\* The record of a manual tuning: the frequency asked for and the one
\* main.js tune forwards to radio.start.
TuneCall(frequency) ==
    [NoCall EXCEPT !.op = "tune", !.frequency = frequency, !.ret = Wrap(frequency)]

\* The main page and the stations page take input while no popup covers
\* them.
PageActive == phase = "run" /\ popup = "none"

tuneFrame ==
    UNCHANGED <<idbVars, phase, boundVars, seekPending, scanFound, scanStopPending,
                sessionVars, popup>>

\* ------------------------------------------------------ main page handlers

\* main.js tuneDown()
TuneDown ==
    /\ PageActive
    /\ tune("tune", getFrequency(radioFrequency) - 1, stationList, radioState,
            radioFrequency)
    /\ last' = TuneCall(getFrequency(radioFrequency) - 1)
    /\ tuneFrame

\* main.js tuneUp()
TuneUp ==
    /\ PageActive
    /\ tune("tune", getFrequency(radioFrequency) + 1, stationList, radioState,
            radioFrequency)
    /\ last' = TuneCall(getFrequency(radioFrequency) + 1)
    /\ tuneFrame

\* main.js onFrequencyLabelClick(): the input popup answered with a number.
FrequencyInput(frequency) ==
    /\ PageActive
    /\ tune("tune", frequency, stationList, radioState, radioFrequency)
    /\ last' = TuneCall(frequency)
    /\ tuneFrame

\* main.js nextStation(), bound to the next preset button, which takes
\* clicks while it is enabled: stations.nextStation throws on an empty
\* collection and the handler ends there.
NextStationClick ==
    /\ PageActive
    /\ stationButtons
    /\ LET nextFreq == nextStation(stationList, getFrequency(radioFrequency))
       IN  /\ IF stationList # <<>>
              THEN tune("tune", nextFreq, stationList, radioState, radioFrequency)
              ELSE UNCHANGED <<storeVars, radioState, radioFrequency, buttonBlock,
                               stationButtons, calls>>
           /\ last' = NoCall
    /\ tuneFrame

\* main.js prevStation()
PrevStationClick ==
    /\ PageActive
    /\ stationButtons
    /\ LET prevFreq == prevStation(stationList, getFrequency(radioFrequency))
       IN  /\ IF stationList # <<>>
              THEN tune("tune", prevFreq, stationList, radioState, radioFrequency)
              ELSE UNCHANGED <<storeVars, radioState, radioFrequency, buttonBlock,
                               stationButtons, calls>>
           /\ last' = NoCall
    /\ tuneFrame

\* main.js saveStationName(stationName): the name popup answered.
SaveStationName(name) ==
    /\ PageActive
    /\ refreshStation(SaveList(stationList, name, getFrequency(radioFrequency), "true"),
                      radioFrequency)
    /\ calls' = <<>>
    /\ last' = NoCall
    /\ UNCHANGED <<radioState, radioFrequency>>
    /\ tuneFrame

\* main.js seekDown() and seekUp(): the debounce flag, then radio.seekDown
\* or radio.seekUp with refreshStation as the success callback.
Seek(fn) ==
    /\ PageActive
    /\ seekPending < MaxPendingSeeks
    /\ IF ~buttonBlock
       THEN /\ buttonBlock' = TRUE
            /\ seekPending' = IF SeekAllowed(radioState) THEN seekPending + 1
                              ELSE seekPending
            /\ calls' = <<SessionCall(fn, "seek", radioState, SeekAllowed(radioState))>>
       ELSE /\ UNCHANGED <<buttonBlock, seekPending>>
            /\ calls' = <<>>
    /\ last' = NoCall
    /\ UNCHANGED <<storeVars, idbVars, phase, boundVars, radioState, radioFrequency,
                   scanFound, scanStopPending, sessionVars, popup, stationButtons>>

SeekDown == Seek("seekDown")

SeekUp == Seek("seekUp")

\* main.js onScanBtnClick(): the progress popup, then radio.scanStart():
\* radio.stop() when playing, the counter, the restore point, and the
\* device's scanStart, which launches a scan when the device is ready and
\* throws otherwise.
ScanBtnClick ==
    /\ PageActive
    /\ LET stopped == StoppedForScan(radioState)
           launched == stopped = RADIO_STATE_READY
       IN  /\ popup' = "progress"
           /\ stationCount' = 0
           /\ frequencyBeforeScan' = getFrequency(radioFrequency)
           /\ radioState' = IF launched THEN RADIO_STATE_SCAN ELSE stopped
           /\ scanFound' = IF launched THEN <<>> ELSE scanFound
           /\ scanOrigin' = IF launched THEN getFrequency(radioFrequency) ELSE scanOrigin
           /\ calls' = <<SessionCall("scanStart", "onScanBtnClick", radioState, TRUE)>>
                        \o IF stopped # radioState
                           THEN <<SessionCall("radio.stop", "scanStart", radioState, TRUE)>>
                           ELSE <<>>
    /\ last' = NoCall
    /\ UNCHANGED <<storeVars, idbVars, phase, boundVars, radioFrequency, seekPending,
                   scanStopPending, minFrequency, maxFrequency, buttonBlock,
                   stationButtons>>

\* popup.js popupYesClicked() on the progress popup: main.js scanStop(),
\* radio.js scanStop(), and the popup closes.
CancelClick ==
    /\ phase = "run"
    /\ popup = "progress"
    /\ popup' = "none"
    /\ scanStopPending' = (scanStopPending \/ ScanStopAllowed(radioState))
    /\ calls' = <<SessionCall("scanStop", "scanStop", radioState,
                              ScanStopAllowed(radioState))>>
    /\ last' = NoCall
    /\ UNCHANGED <<storeVars, idbVars, phase, boundVars, radioState, radioFrequency,
                   seekPending, scanFound, sessionVars, buttonBlock, stationButtons>>

\* popup.js popupYesClicked() on a text popup: no callback, the popup
\* closes.
OkClick ==
    /\ phase = "run"
    /\ popup \notin {"none", "progress"}
    /\ popup' = "none"
    /\ calls' = <<>>
    /\ last' = NoCall
    /\ UNCHANGED <<storeVars, idbVars, phase, boundVars, deviceVars, sessionVars,
                   buttonBlock, stationButtons>>

\* -------------------------------------------------- stations page handlers

\* main.js switchToFrequency(event), fired by a click on a list item.
ListSwitch(frequency) ==
    /\ PageActive
    /\ frequency \in Frequencies(stationList)
    /\ tune("tune", frequency, stationList, radioState, radioFrequency)
    /\ last' = NoCall
    /\ tuneFrame

\* stationList view updateName(name): stations.save(name, stationEditFreq,
\* true), then main.js refreshStation().
UpdateName(name, frequency) ==
    /\ PageActive
    /\ frequency \in Frequencies(stationList)
    /\ refreshStation(SaveList(stationList, name, frequency, "true"), radioFrequency)
    /\ calls' = <<>>
    /\ last' = NoCall
    /\ UNCHANGED <<radioState, radioFrequency>>
    /\ tuneFrame

\* stationList view remove(): stations.remove(stationEditFreq), then
\* main.js refreshStation().
RemoveStation(frequency) ==
    /\ PageActive
    /\ frequency \in Frequencies(stationList)
    /\ refreshStation(RemoveList(stationList, frequency), radioFrequency)
    /\ calls' = <<>>
    /\ last' = NoCall
    /\ UNCHANGED <<radioState, radioFrequency>>
    /\ tuneFrame

\* stationList view removeAll(): stations.removeAll().
RemoveAll ==
    /\ PageActive
    /\ stationList # <<>>
    /\ stationList' = <<>>
    /\ SaveToDatabase(stationList', lastFrequency)
    /\ calls' = <<>>
    /\ last' = NoCall
    /\ UNCHANGED <<lastFrequency, radioState, radioFrequency, buttonBlock>>
    /\ stationButtons' = refreshStationButtons(stationList')
    /\ tuneFrame

\* --------------------------------------------------------- device callbacks

\* The device answers a seek with success: it is tuned to the frequency it
\* found, and main.js refreshStation() runs as the success callback.
SeekSuccess(frequency) ==
    /\ seekPending > 0
    /\ radioState = RADIO_STATE_PLAY
    /\ seekPending' = seekPending - 1
    /\ radioFrequency' = frequency
    /\ refreshStation(stationList, frequency)
    /\ calls' = <<>>
    /\ last' = NoCall
    /\ UNCHANGED <<idbVars, phase, boundVars, radioState, scanFound, scanStopPending,
                   sessionVars, popup>>

\* The device answers a seek with an error: radio.js errorCallback(error).
SeekError ==
    /\ seekPending > 0
    /\ seekPending' = seekPending - 1
    /\ \E error \in DeviceErrors :
            /\ popup' = errorCallback(error)
            /\ last' = ErrorCall(error)
    /\ calls' = <<>>
    /\ UNCHANGED <<storeVars, idbVars, phase, boundVars, radioState, radioFrequency,
                   scanFound, scanStopPending, sessionVars, buttonBlock, stationButtons>>

\* The notification of radio.js onFrequencyFound to the popup:
\* popup.updateProgress(progress, stationCount).
ProgressCall(frequency) ==
    [NoCall EXCEPT !.op = "onFrequencyFound", !.frequency = frequency,
                   !.ret = Progress(frequency)]

\* onFrequencyFound that leaves the counter as it is.
FoundCountKept(count) == count

\* radio.js onFrequencyFound: "stationCount += 1", the count it hands to
\* popup.updateProgress.
FoundCount(count) == count + 1

\* radio.js onFrequencyFound(frequency): the scan sweeps upwards; the
\* device may or may not report the found frequency as its own.
ScanFound(frequency) ==
    /\ radioState = RADIO_STATE_SCAN
    /\ \A i \in 1..Len(scanFound) : scanFound[i] < frequency
    /\ scanFound' = Append(scanFound, frequency)
    /\ radioFrequency' \in {radioFrequency, frequency}
    /\ stationCount' = FoundCount(stationCount)
    /\ popup' = IF ClosesPopup(Progress(frequency)) THEN "none" ELSE popup
    /\ calls' = <<>>
    /\ last' = ProgressCall(frequency)
    /\ UNCHANGED <<storeVars, idbVars, phase, boundVars, radioState, seekPending,
                   scanStopPending, minFrequency, maxFrequency, frequencyBeforeScan,
                   scanOrigin, buttonBlock, stationButtons>>

\* radio.js onFinished(frequencies): the device is ready again; the
\* counter, the closing progress update, the saves, and switchToFrequency
\* of the first discovered frequency (main.js switchToFrequency, tune).
ScanFinished ==
    /\ radioState = RADIO_STATE_SCAN
    /\ LET frequencies == scanFound
           first == IF frequencies = <<>> THEN Undefined ELSE frequencies[1]
       IN  /\ stationCount' = Len(frequencies)
           /\ popup' = "none"
           /\ \E fallback \in {radioFrequency, frequencyLowerBound} :
                tune("onFinished", first,
                     SaveFound(stationList, frequencies, Len(frequencies)),
                     RADIO_STATE_READY, fallback)
           /\ last' = [Call("onFinished", "", first, "undefined", 0)
                            EXCEPT !.frequencies = frequencies]
    /\ scanFound' = <<>>
    /\ scanOrigin' = 0
    /\ UNCHANGED <<idbVars, phase, boundVars, seekPending, scanStopPending,
                   minFrequency, maxFrequency, frequencyBeforeScan>>

\* radio.js scanStopSuccess(): the device has stopped the scan and is
\* ready; start(frequencyBeforeScan) and the restore point is cleared.
ScanStopSuccess ==
    /\ scanStopPending
    /\ radioState = RADIO_STATE_SCAN
    /\ scanStopPending' = FALSE
    /\ scanFound' = <<>>
    /\ LET dev == start(RADIO_STATE_READY, radioFrequency, frequencyBeforeScan,
                        radioFrequency)
       IN  /\ radioState' = dev.state
           /\ radioFrequency' = dev.frequency
    /\ frequencyBeforeScan' = 0
    /\ scanOrigin' = 0
    /\ calls' = <<SessionCall("start", "scanStopSuccess", RADIO_STATE_READY,
                              StartAllowed(RADIO_STATE_READY))>>
    /\ last' = [NoCall EXCEPT !.op = "scanStopSuccess", !.frequency = scanOrigin]
    /\ UNCHANGED <<storeVars, idbVars, phase, boundVars, seekPending, minFrequency,
                   maxFrequency, stationCount, viewVars>>

\* The device refuses a scanStop: radio.js errorCallback(error).
ScanStopError ==
    /\ scanStopPending
    /\ scanStopPending' = FALSE
    /\ \E error \in DeviceErrors :
            /\ popup' = errorCallback(error)
            /\ last' = ErrorCall(error)
    /\ calls' = <<>>
    /\ UNCHANGED <<storeVars, idbVars, phase, boundVars, radioState, radioFrequency,
                   seekPending, scanFound, sessionVars, buttonBlock, stationButtons>>

\* radio.js onInterrputed(reason): the device stops playing, the popup
\* shows the reason.
Interrupted ==
    /\ phase = "run"
    /\ radioState' = IF radioState = RADIO_STATE_PLAY THEN RADIO_STATE_READY
                     ELSE radioState
    /\ \E reason \in InterruptReasons : popup' = PopupText("Radio interrupted", reason)
    /\ calls' = <<>>
    /\ last' = NoCall
    /\ UNCHANGED <<storeVars, idbVars, phase, boundVars, radioFrequency, seekPending,
                   scanFound, scanStopPending, sessionVars, buttonBlock, stationButtons>>

\* start(getFrequency()) of radio.js onInterrputedFinish() and
\* onChangeAntennaConnectionListener(true).
Resume(op) ==
    /\ phase = "run"
    /\ LET dev == start(radioState, radioFrequency, getFrequency(radioFrequency),
                        radioFrequency)
       IN  /\ radioState' = dev.state
           /\ radioFrequency' = dev.frequency
    /\ calls' = <<SessionCall("start", op, radioState, StartAllowed(radioState))>>
    /\ last' = NoCall
    /\ UNCHANGED <<storeVars, idbVars, phase, boundVars, seekPending, scanFound,
                   scanStopPending, sessionVars, viewVars>>

InterruptFinished == Resume("resume")

AntennaConnected == Resume("resume")

\* ------------------------------------------------------------------ startup

\* queryDatabase that reads the presets alone.
queryDatabaseStationsOnly == {[key |-> "stations", value |-> dbStations]}

\* stations.js queryDatabase(): one read for each key, each answered with
\* the value the storage holds when the read is issued. The value is <<>>
\* for the key 'stations' while nothing was written under it.
queryDatabase ==
    {[key |-> "stations", value |-> dbStations],
     [key |-> "lastFrequency", value |-> <<dbLastFrequency>>]}

\* The storage opens: stations.js queryDatabase() issues both reads.
IdbOpen ==
    /\ ~idbReady
    /\ idbReady' = TRUE
    /\ reads' = queryDatabase
    /\ calls' = <<>>
    /\ last' = NoCall
    /\ UNCHANGED <<storeVars, phase, boundVars, deviceVars, sessionVars, viewVars>>

\* stations.js queryCallback(event) for the key 'stations'.
IdbReadStations ==
    /\ \E r \in reads :
            /\ r.key = "stations"
            /\ reads' = reads \ {r}
            /\ stationList' = IF r.value # <<>> THEN Parse(r.value[1]) ELSE stationList
    /\ calls' = <<>>
    /\ last' = NoCall
    /\ UNCHANGED <<lastFrequency, dbStations, dbLastFrequency, idbReady, phase,
                   boundVars, deviceVars, sessionVars, viewVars>>

\* stations.js queryCallback(event) for the key 'lastFrequency': a value
\* that is not 0 is taken over and switchToFrequency is fired, which
\* main.js hears once main.initialize has bound it.
IdbReadLastFrequency ==
    /\ \E r \in reads :
            /\ r.key = "lastFrequency"
            /\ reads' = reads \ {r}
            /\ IF r.value[1] # 0 /\ phase = "run"
               THEN tune("tune", r.value[1], stationList, radioState, radioFrequency)
               ELSE /\ lastFrequency' = IF r.value[1] # 0 THEN r.value[1]
                                        ELSE lastFrequency
                    /\ calls' = <<>>
                    /\ UNCHANGED <<stationList, dbStations, dbLastFrequency, radioState,
                                   radioFrequency, buttonBlock, stationButtons>>
    /\ last' = NoCall
    /\ UNCHANGED <<idbReady, phase, boundVars, seekPending, scanFound, scanStopPending,
                   sessionVars, popup>>

\* radio.js init() resolving the frequency it starts at: the in-memory
\* last frequency of the store, started everywhere at the lower bound.
InitialFrequencyAlwaysMin(frequency, lowerBound) == lowerBound

\* radio.js init(): "freq = stations.getLastFrequency(); if (!freq) { freq =
\* minFrequency; }"
InitialFrequency(frequency, lowerBound) ==
    IF frequency = 0 THEN lowerBound ELSE frequency

\* main.js init(): bindEvents(), then radio.js init(): the bounds of the
\* device, the listeners, and start at the last frequency or, when that is
\* 0, at the lower bound.
Initialize ==
    /\ phase = "boot"
    /\ phase' = "run"
    /\ minFrequency' = frequencyLowerBound
    /\ maxFrequency' = frequencyUpperBound
    /\ LET freq == InitialFrequency(lastFrequency, minFrequency')
           dev == start(radioState, radioFrequency, freq, radioFrequency)
       IN  /\ radioState' = dev.state
           /\ radioFrequency' = dev.frequency
           /\ calls' = <<SessionCall("start", "initialize", radioState,
                                     StartAllowed(radioState))>>
           /\ last' = NoCall
    /\ UNCHANGED <<storeVars, idbVars, boundVars, seekPending, scanFound,
                   scanStopPending, stationCount, frequencyBeforeScan, scanOrigin,
                   viewVars>>

\* What an earlier run may have left in the storage: nothing, an emptied
\* collection and a last frequency, or two presets and the frequency of
\* the second.
Persisted ==
    {[stations |-> <<>>, lastFrequency |-> 0],
     [stations |-> <<Stringify(<<>>)>>, lastFrequency |-> MinFrequencyDefault],
     [stations |-> <<Stringify(<<Station("A", MinFrequencyDefault),
                                 Station("B", MinFrequencyDefault + 1)>>)>>,
      lastFrequency |-> MinFrequencyDefault + 1]}

\* The modules are defined and stations.js init() has run: the reads are
\* issued when the storage is ready, and wait for it otherwise.
InitBoot ==
    /\ stationList = <<>>
    /\ lastFrequency = 0
    /\ \E p \in Persisted :
            /\ dbStations = p.stations
            /\ dbLastFrequency = p.lastFrequency
    /\ idbReady \in BOOLEAN
    /\ reads = IF idbReady THEN queryDatabase ELSE {}
    /\ phase = "boot"
    /\ frequencyLowerBound = MinFrequencyDefault
    /\ frequencyUpperBound = MaxFrequencyDefault
    /\ radioMute = FALSE
    /\ radioState \in {RADIO_STATE_READY, RADIO_STATE_PLAY}
    /\ radioFrequency = frequencyLowerBound
    /\ seekPending = 0
    /\ scanFound = <<>>
    /\ scanStopPending = FALSE
    /\ minFrequency = MinFrequencyDefault
    /\ maxFrequency = MaxFrequencyDefault
    /\ stationCount = 0
    /\ frequencyBeforeScan = 0
    /\ buttonBlock = FALSE
    /\ stationButtons = FALSE
    /\ popup = "none"
    /\ scanOrigin = 0
    /\ calls = <<>>
    /\ last = NoCall

\* The handlers of the two pages without the seek buttons, and the
\* callbacks of the device.
Next ==
    \/ TuneDown
    \/ TuneUp
    \/ \E frequency \in QueryFreqs : FrequencyInput(frequency)
    \/ NextStationClick
    \/ PrevStationClick
    \/ \E name \in TypedNames : SaveStationName(name)
    \/ ScanBtnClick
    \/ CancelClick
    \/ OkClick
    \/ \E frequency \in DeviceBand : ListSwitch(frequency)
    \/ \E name \in TypedNames, frequency \in DeviceBand : UpdateName(name, frequency)
    \/ \E frequency \in DeviceBand : RemoveStation(frequency)
    \/ RemoveAll
    \/ \E frequency \in DeviceBand : ScanFound(frequency)
    \/ ScanFinished
    \/ ScanStopSuccess
    \/ ScanStopError
    \/ Interrupted
    \/ InterruptFinished
    \/ AntennaConnected

Spec == Init /\ [][Next]_vars

\* The seek buttons and the answers of the device to a seek, next to the
\* handlers that tune, scan and resume.
NextSeek ==
    \/ TuneDown
    \/ TuneUp
    \/ NextStationClick
    \/ PrevStationClick
    \/ ScanBtnClick
    \/ CancelClick
    \/ OkClick
    \/ \E frequency \in DeviceBand : ScanFound(frequency)
    \/ ScanFinished
    \/ ScanStopSuccess
    \/ ScanStopError
    \/ Interrupted
    \/ InterruptFinished
    \/ AntennaConnected
    \/ SeekDown
    \/ SeekUp
    \/ \E frequency \in DeviceBand : SeekSuccess(frequency)
    \/ SeekError

SpecSeek == Init /\ [][NextSeek]_vars

\* The application from the definition of its modules on.
NextBoot ==
    \/ Initialize
    \/ IdbOpen
    \/ IdbReadStations
    \/ IdbReadLastFrequency
    \/ TuneDown
    \/ TuneUp
    \/ NextStationClick
    \/ PrevStationClick
    \/ \E name \in TypedNames : SaveStationName(name)
    \/ \E frequency \in DeviceBand : RemoveStation(frequency)
    \/ RemoveAll
    \/ Interrupted
    \/ OkClick
    \/ InterruptFinished

SpecBoot == InitBoot /\ [][NextBoot]_vars

\* The application after main.js init() on a device whose band is
\* ProgressSteps wide, the storage empty and its reads answered.
InitProgress ==
    /\ stationList = <<>>
    /\ lastFrequency = 0
    /\ dbStations = <<>>
    /\ dbLastFrequency = 0
    /\ idbReady = TRUE
    /\ reads = {}
    /\ phase = "run"
    /\ frequencyLowerBound = MinFrequencyDefault
    /\ frequencyUpperBound = MinFrequencyDefault + ProgressSteps
    /\ radioMute = FALSE
    /\ radioState = RADIO_STATE_PLAY
    /\ radioFrequency = frequencyLowerBound
    /\ seekPending = 0
    /\ scanFound = <<>>
    /\ scanStopPending = FALSE
    /\ minFrequency = frequencyLowerBound
    /\ maxFrequency = frequencyUpperBound
    /\ stationCount = 0
    /\ frequencyBeforeScan = 0
    /\ buttonBlock = FALSE
    /\ stationButtons = FALSE
    /\ popup = "none"
    /\ scanOrigin = 0
    /\ calls = <<>>
    /\ last = NoCall

\* The scan button, the Cancel and OK buttons of the popups, and the
\* callbacks of the device to a scan that is cancelled.
NextProgress ==
    \/ ScanBtnClick
    \/ CancelClick
    \/ OkClick
    \/ \E frequency \in DeviceBand : ScanFound(frequency)
    \/ ScanStopSuccess
    \/ ScanStopError

SpecProgress == InitProgress /\ [][NextProgress]_vars

\* The bounds a device may report: those of radio.js, or a band that
\* reaches one step further down or up.
DeviceBounds ==
    {<<MinFrequencyDefault, MaxFrequencyDefault>>,
     <<MinFrequencyDefault - 1, MaxFrequencyDefault>>,
     <<MinFrequencyDefault, MaxFrequencyDefault + 1>>}

\* The application before main.js init() on a device of any of these
\* bands, the storage empty and its reads answered.
InitBounds ==
    /\ stationList = <<>>
    /\ lastFrequency = 0
    /\ dbStations = <<>>
    /\ dbLastFrequency = 0
    /\ idbReady = TRUE
    /\ reads = {}
    /\ phase = "boot"
    /\ \E b \in DeviceBounds :
            /\ frequencyLowerBound = b[1]
            /\ frequencyUpperBound = b[2]
    /\ radioMute = FALSE
    /\ radioState = RADIO_STATE_READY
    /\ radioFrequency = frequencyLowerBound
    /\ seekPending = 0
    /\ scanFound = <<>>
    /\ scanStopPending = FALSE
    /\ minFrequency = MinFrequencyDefault
    /\ maxFrequency = MaxFrequencyDefault
    /\ stationCount = 0
    /\ frequencyBeforeScan = 0
    /\ buttonBlock = FALSE
    /\ stationButtons = FALSE
    /\ popup = "none"
    /\ scanOrigin = 0
    /\ calls = <<>>
    /\ last = NoCall

\* main.js init() and the handlers that tune.
NextBounds ==
    \/ Initialize
    \/ TuneDown
    \/ TuneUp
    \/ \E frequency \in QueryFreqs : FrequencyInput(frequency)
    \/ NextStationClick
    \/ PrevStationClick
    \/ \E name \in TypedNames : SaveStationName(name)
    \/ \E frequency \in DeviceBand : ListSwitch(frequency)
    \/ \E frequency \in DeviceBand : RemoveStation(frequency)

SpecBounds == InitBounds /\ [][NextBounds]_vars

\* ------------------------------------------------- properties of the store

StrictlyAscending(list) ==
    \A i \in 1..(Len(list) - 1) : list[i].frequency < list[i + 1].frequency

Lowest(S) == CHOOSE x \in S : \A y \in S : x <= y

Highest(S) == CHOOSE x \in S : \A y \in S : x >= y

\* C1: after any sequence of save and remove calls from the empty store,
\* the station list is strictly ascending by frequency, hence holds no
\* frequency twice.
C1_SortedUnique ==
    /\ StrictlyAscending(stationList)
    /\ Cardinality(Frequencies(stationList)) = Len(stationList)

\* A save that put a new preset in front of two others, and a remove that
\* took the middle one of three.
C1_Witness ==
    \/ /\ last.op = "save"
       /\ Len(last.before) = 2
       /\ Len(stationList) = 3
       /\ stationList[1].frequency = last.frequency
    \/ /\ last.op = "remove"
       /\ Len(last.before) = 3
       /\ Len(stationList) = 2
       /\ last.before[2].frequency = last.frequency

\* C6: save(name, f, overwrite = false) is idempotent: a second identical
\* call leaves the collection (size, order, names, frequencies) as the
\* first call left it.
C6_SaveIdempotent ==
    (last.op = "save" /\ last.overwrite = "false") =>
        SaveList(stationList, last.name, last.frequency, "false") = stationList

\* A non-overwriting save that inserted a preset into a non-empty store.
C6_Witness ==
    /\ last.op = "save"
    /\ last.overwrite = "false"
    /\ last.before # <<>>
    /\ last.frequency \notin Frequencies(last.before)
    /\ last.frequency \in Frequencies(stationList)

\* C7: save on a frequency already present changes no structure (size,
\* frequencies, order, the other presets) and sets the name at that
\* frequency exactly when overwrite is true; save on an absent frequency
\* adds exactly the one preset and keeps every previous one.
C7_SaveEffect ==
    last.op = "save" =>
        LET b == last.before
            i == FindFrequency(b, last.frequency)
        IN  IF last.frequency \in Frequencies(b)
            THEN /\ Len(stationList) = Len(b)
                 /\ \A j \in 1..Len(b) :
                        /\ stationList[j].frequency = b[j].frequency
                        /\ j # i => stationList[j] = b[j]
                 /\ stationList[i].name =
                        IF last.overwrite = "true" THEN last.name ELSE b[i].name
            ELSE /\ Len(stationList) = Len(b) + 1
                 /\ Presets(stationList) =
                        Presets(b) \cup {Station(last.name, last.frequency)}

\* A save without overwrite on a present frequency whose name differs from
\* the one offered.
C7_Witness ==
    /\ last.op = "save"
    /\ last.overwrite # "true"
    /\ Len(last.before) >= 2
    /\ last.frequency \in Frequencies(last.before)
    /\ getStationName(last.before, last.frequency) # last.name

\* C8: on a store of at least two presets and for a preset frequency f,
\* prevStation(nextStation(f)) = f and nextStation(prevStation(f)) = f.
C8_RoundTrip ==
    (/\ last.op \in {"nextStation", "prevStation"}
     /\ Len(stationList) >= 2
     /\ last.frequency \in Frequencies(stationList)) =>
        IF last.op = "nextStation"
        THEN prevStation(stationList, last.ret) = last.frequency
        ELSE nextStation(stationList, last.ret) = last.frequency

\* nextStation asked at the highest of three presets, where it wraps.
C8_Witness ==
    /\ last.op = "nextStation"
    /\ Len(stationList) = 3
    /\ last.frequency = stationList[3].frequency
    /\ last.ret = stationList[1].frequency

\* C9: on a non-empty store nextStation(f) is the smallest preset frequency
\* above f, or the lowest preset frequency when none is above; it is always
\* a preset frequency.
C9_NextStation ==
    (last.op = "nextStation" /\ stationList # <<>>) =>
        LET all == Frequencies(stationList)
            above == {g \in all : g > last.frequency}
        IN  /\ last.ret \in all
            /\ last.ret = IF above # {} THEN Lowest(above) ELSE Lowest(all)

\* nextStation asked at a preset frequency that has presets on both sides.
C9_Witness ==
    /\ last.op = "nextStation"
    /\ Len(stationList) = 3
    /\ last.frequency = stationList[2].frequency
    /\ last.ret = stationList[3].frequency

\* C10: on a non-empty store prevStation(f) is the largest preset frequency
\* below f, or the highest preset frequency when none is below; it is
\* always a preset frequency.
C10_PrevStation ==
    (last.op = "prevStation" /\ stationList # <<>>) =>
        LET all == Frequencies(stationList)
            below == {g \in all : g < last.frequency}
        IN  /\ last.ret \in all
            /\ last.ret = IF below # {} THEN Highest(below) ELSE Highest(all)

\* prevStation asked below every preset, where it wraps to the highest.
C10_Witness ==
    /\ last.op = "prevStation"
    /\ Len(stationList) >= 2
    /\ \A g \in Frequencies(stationList) : g >= last.frequency
    /\ last.ret = stationList[Len(stationList)].frequency

\* ----------------------------------------------- properties of the session

\* C2: start(f) called while the device is scanning is a no-op: no device
\* start is issued and the state is still scanning after the step.
C2_StartWhileScanning ==
    \A i \in 1..Len(calls) :
        (calls[i].fn = "start" /\ calls[i].state = RADIO_STATE_SCAN) =>
            (~calls[i].device /\ radioState = RADIO_STATE_SCAN)

\* A handler called start while a scan was running.
C2_Witness ==
    /\ radioState = RADIO_STATE_SCAN
    /\ calls # <<>>
    /\ calls[1].fn = "start"
    /\ calls[1].state = RADIO_STATE_SCAN
    /\ ~calls[1].device

\* C3: after the device has confirmed a scanStop, the session plays at the
\* frequency that was tuned when the scan was started, whatever happened
\* in between.
C3_CancelRestores ==
    last.op = "scanStopSuccess" =>
        (radioState = RADIO_STATE_PLAY /\ radioFrequency = last.frequency)

\* C4: scan completion with a non-empty ascending list on an empty store
\* leaves exactly the presets "Station i" at the i-th discovered
\* frequency, in list order, the device started at the first discovered
\* frequency, and that frequency stored as the last one.
C4_ScanFinishedOnEmptyStore ==
    (last.op = "onFinished" /\ last.before = <<>> /\ last.frequencies # <<>>) =>
        /\ stationList = [i \in 1..Len(last.frequencies) |->
                             Station(StationName(i), last.frequencies[i])]
        /\ calls = <<SessionCall("start", "onFinished", RADIO_STATE_READY, TRUE)>>
        /\ radioState = RADIO_STATE_PLAY
        /\ radioFrequency = last.frequencies[1]
        /\ lastFrequency = last.frequencies[1]

\* A scan that found two frequencies has finished on an empty store.
C4_Witness ==
    /\ last.op = "onFinished"
    /\ last.before = <<>>
    /\ Len(last.frequencies) = 2
    /\ Len(stationList) = 2
    /\ radioFrequency = last.frequencies[1]

\* C5: scan completion keeps every preset it found in the store, name
\* included, and adds "Station i" exactly at the discovered frequencies
\* that were no preset, i being the 1-based position in the list.
C5_ScanFinishedKeepsNames ==
    last.op = "onFinished" =>
        LET found == {last.frequencies[j] : j \in 1..Len(last.frequencies)}
        IN  /\ Presets(last.before) \subseteq Presets(stationList)
            /\ Frequencies(stationList) = Frequencies(last.before) \cup found
            /\ \A j \in 1..Len(last.frequencies) :
                    last.frequencies[j] \notin Frequencies(last.before) =>
                        getStationName(stationList, last.frequencies[j]) = StationName(j)

\* A scan has finished that found one frequency that was a preset under
\* another name and one that was none.
C5_Witness ==
    /\ last.op = "onFinished"
    /\ \E j \in 1..Len(last.frequencies) :
            /\ last.frequencies[j] \in Frequencies(last.before)
            /\ getStationName(last.before, last.frequencies[j]) # StationName(j)
            /\ getStationName(stationList, last.frequencies[j]) # StationName(j)
    /\ \E j \in 1..Len(last.frequencies) :
            last.frequencies[j] \notin Frequencies(last.before)

\* ------------------------------------------ further properties of the store

\* C11: nextStation and prevStation asked on an empty collection produce a
\* defined outcome and raise nothing.
C11_EmptyGuarded ==
    (last.op \in {"nextStation", "prevStation"} /\ last.before = <<>>) =>
        last.ret # TypeError

\* The collection without the presets at a frequency.
Without(list, frequency) == SelectSeq(list, LAMBDA s : s.frequency # frequency)

C13_TuneWraps ==
    last.op = "tune" =>
        /\ last.ret = IF last.frequency < ExportedMinFrequency THEN ExportedMaxFrequency
                      ELSE IF last.frequency > ExportedMaxFrequency
                           THEN ExportedMinFrequency
                           ELSE last.frequency
        /\ last.ret \in ExportedMinFrequency..ExportedMaxFrequency
        /\ calls[1].fn = "start"
        /\ calls[1].device => radioFrequency = last.ret

\* A tune down at the lower bound has wrapped to the upper bound.
C13_Witness ==
    /\ last.op = "tune"
    /\ last.frequency = ExportedMinFrequency - 1
    /\ last.ret = ExportedMaxFrequency
    /\ radioFrequency = ExportedMaxFrequency

\* C14: once initialised, manual tuning wraps at the bounds the device
\* reports, which are the bounds the session read at init, whatever those
\* bounds are.
C14_WrapAtDeviceBounds ==
    (phase = "run" /\ last.op = "tune") =>
        /\ minFrequency = frequencyLowerBound
        /\ maxFrequency = frequencyUpperBound
        /\ last.ret = IF last.frequency < minFrequency THEN maxFrequency
                      ELSE IF last.frequency > maxFrequency THEN minFrequency
                      ELSE last.frequency

\* ------------------------------------------------- properties of the seeks

\* C15: whatever the order of seek presses, tune presses, preset switches
\* and answers of the device, at most one seek that the device has not
\* answered is outstanding.
C15_OneSeekOutstanding == seekPending <= 1

\* C16: the debounce flag is set only while a seek is outstanding: it is
\* clear again once the device has answered the seek, with success or with
\* an error, and after a press that the session ignored because it was not
\* playing.
C16_FlagMeansSeekOutstanding == buttonBlock => seekPending > 0

\* C17: seekUp and seekDown call the device's seek exactly when the device
\* plays; in any other state they issue nothing, show no error and leave
\* the state and the frequency of the device as they were.
C17_SeekOnlyWhilePlaying ==
    [][(calls' # <<>> /\ calls'[1].fn \in {"seekUp", "seekDown"}) =>
        /\ calls'[1].device <=> radioState = RADIO_STATE_PLAY
        /\ radioState' = radioState
        /\ radioFrequency' = radioFrequency
        /\ IF radioState = RADIO_STATE_PLAY
           THEN seekPending' = seekPending + 1
           ELSE seekPending' = seekPending /\ popup' = popup]_vars

\* A seek button was pressed while the device was scanning.
C17_Witness ==
    /\ calls # <<>>
    /\ calls[1].fn \in {"seekUp", "seekDown"}
    /\ calls[1].state = RADIO_STATE_SCAN
    /\ ~calls[1].device
    /\ radioState = RADIO_STATE_SCAN
    /\ popup = "none"

\* C18: when the device reports that a seek or a scanStop has failed, the
\* popup shows the name of the error as title and its message as text, the
\* failure leaves the state and the frequency of the device and the
\* restore point of the scan as they were, and the session issues no
\* operation in answer.
C18_ErrorNotification ==
    [][last'.op = "errorCallback" =>
        /\ popup' = last'.name \o ": " \o last'.ret
        /\ radioState' = radioState
        /\ radioFrequency' = radioFrequency
        /\ frequencyBeforeScan' = frequencyBeforeScan
        /\ calls' = <<>>
        /\ seekPending' <= seekPending
        /\ scanStopPending' => scanStopPending]_vars

\* The device has refused a scanStop: the scan goes on, the restore point
\* is kept and the popup shows the error.
C18_Witness ==
    /\ last.op = "errorCallback"
    /\ last.name = "InvalidStateError"
    /\ radioState = RADIO_STATE_SCAN
    /\ ~scanStopPending
    /\ frequencyBeforeScan # 0
    /\ popup = "InvalidStateError: wrong state"

\* ------------------------------------------------- properties of the scans

\* C19: scanStart on a device that is ready or plays stops the device
\* exactly when it plays, records the frequency of the device as the
\* restore point, resets the counter to 0 and launches one scan: the device
\* scans afterwards.
C19_ScanStart ==
    [][(/\ calls' # <<>>
        /\ calls'[1].fn = "scanStart"
        /\ radioState \in {RADIO_STATE_READY, RADIO_STATE_PLAY}) =>
        /\ radioState = RADIO_STATE_PLAY <=>
                \E i \in 1..Len(calls') : calls'[i].fn = "radio.stop"
        /\ frequencyBeforeScan' = radioFrequency
        /\ stationCount' = 0
        /\ calls'[1].device
        /\ radioState' = RADIO_STATE_SCAN
        /\ scanFound' = <<>>
        /\ scanOrigin' = radioFrequency
        /\ radioFrequency' = radioFrequency]_vars

\* A scan launched from a playing device with a preset in the store.
C19_Witness ==
    /\ calls # <<>>
    /\ calls[1].fn = "scanStart"
    /\ calls[1].state = RADIO_STATE_PLAY
    /\ Len(calls) = 2
    /\ radioState = RADIO_STATE_SCAN
    /\ stationList # <<>>
    /\ stationCount = 0
    /\ frequencyBeforeScan = radioFrequency

\* C20: scanStop on a device that does not scan is a no-op: it asks the
\* device for nothing and leaves the restore point, the counter, the state
\* and the frequency of the device and the store as they were.
C20_ScanStopOutsideScan ==
    [][(/\ calls' # <<>>
        /\ calls'[1].fn = "scanStop"
        /\ radioState # RADIO_STATE_SCAN) =>
        /\ ~calls'[1].device
        /\ Len(calls') = 1
        /\ scanStopPending' = scanStopPending
        /\ frequencyBeforeScan' = frequencyBeforeScan
        /\ stationCount' = stationCount
        /\ radioState' = radioState
        /\ radioFrequency' = radioFrequency
        /\ UNCHANGED storeVars]_vars

\* Cancel was pressed on a progress popup that was still open when the
\* device was playing again.
C20_Witness ==
    /\ calls # <<>>
    /\ calls[1].fn = "scanStop"
    /\ calls[1].state = RADIO_STATE_PLAY
    /\ ~calls[1].device
    /\ radioState = RADIO_STATE_PLAY
    /\ ~scanStopPending

\* --------------------------------------------- the session driven directly

\* radio.js stop(), which no view calls: the device stops playing when it
\* plays.
SessionStop ==
    /\ phase = "run"
    /\ radioState' = IF StopAllowed(radioState) THEN RADIO_STATE_READY ELSE radioState
    /\ calls' = <<SessionCall("stop", "stop", radioState, StopAllowed(radioState))>>
    /\ last' = NoCall
    /\ UNCHANGED <<storeVars, idbVars, phase, boundVars, radioFrequency, seekPending,
                   scanFound, scanStopPending, sessionVars, viewVars>>

\* stop() next to the handlers that tune and scan.
NextStop ==
    \/ SessionStop
    \/ TuneDown
    \/ TuneUp
    \/ ScanBtnClick
    \/ CancelClick
    \/ OkClick
    \/ \E frequency \in DeviceBand : ScanFound(frequency)
    \/ ScanFinished
    \/ ScanStopSuccess
    \/ ScanStopError

SpecStop == Init /\ [][NextStop]_vars

\* C21: stop() calls the device's stop exactly when the device plays, and
\* the device is ready afterwards; on a device that is ready or scans it
\* calls nothing and changes nothing.
C21_StopOnlyWhilePlaying ==
    [][(calls' # <<>> /\ calls'[1].fn = "stop") =>
        /\ calls'[1].device <=> radioState = RADIO_STATE_PLAY
        /\ radioState' = IF radioState = RADIO_STATE_PLAY THEN RADIO_STATE_READY
                         ELSE radioState
        /\ radioFrequency' = radioFrequency
        /\ UNCHANGED <<storeVars, seekPending, scanFound, scanStopPending,
                       sessionVars, viewVars>>]_vars

\* stop() was called on a device that was ready, and it is ready still.
C21_Witness ==
    /\ calls # <<>>
    /\ calls[1].fn = "stop"
    /\ calls[1].state = RADIO_STATE_READY
    /\ ~calls[1].device
    /\ radioState = RADIO_STATE_READY

\* ------------------------------------------------ properties of the storage

\* C22: after save, remove, removeAll and setLastFrequency the storage
\* holds the serialization of the collection under 'stations' and the last
\* frequency under 'lastFrequency'; after removeAll the collection and the
\* stored one are empty.
C22_PersistedInSync ==
    last.op \in {"save", "remove", "removeAll", "setLastFrequency"} =>
        /\ dbStations = <<Stringify(stationList)>>
        /\ Parse(dbStations[1]) = stationList
        /\ dbLastFrequency = lastFrequency
        /\ last.op = "removeAll" =>
                (stationList = <<>> /\ Parse(dbStations[1]) = <<>>)

\* removeAll on a store that held two presets and a last frequency.
C22_Witness ==
    /\ last.op = "removeAll"
    /\ Len(last.before) = 2
    /\ lastFrequency # 0
    /\ stationList = <<>>
    /\ dbLastFrequency = lastFrequency

\* C23: no value of the storage is written before the answers to both
\* startup reads have been applied: a step that leaves a read unissued or
\* unanswered leaves the storage as it was.
C23_NoWriteBeforeReads ==
    [][~(idbReady' /\ reads' = {}) =>
            UNCHANGED <<dbStations, dbLastFrequency>>]_vars

\* C24: after every tune that reached the device (the start of radio.js
\* init, a manual tune, a preset switch, the end of a scan, the restore
\* after a cancelled scan) the last frequency of the store, in memory and
\* in the storage, is the frequency the device is tuned to.
C24_LastFrequencyFollowsTune ==
    (/\ calls # <<>>
     /\ calls[1].fn = "start"
     /\ calls[1].by \in {"initialize", "tune", "onFinished", "scanStopSuccess"}
     /\ calls[1].device) =>
        (lastFrequency = radioFrequency /\ dbLastFrequency = radioFrequency)

\* ------------------------------------------------ properties of the startup

C26_EmptyScanFallsBackToIdle ==
    (last.op = "onFinished" /\ last.frequencies = <<>>) =>
        /\ stationList = last.before
        /\ calls = <<>>
        /\ radioState = RADIO_STATE_READY

\* C27: scanStart invoked while the device scans launches no second scan
\* and leaves the restore point and the counter of found stations as they
\* were.
C27_ScanStartWhileScanning ==
    [][(/\ calls' # <<>>
        /\ calls'[1].fn = "scanStart"
        /\ radioState = RADIO_STATE_SCAN) =>
            /\ radioState' = RADIO_STATE_SCAN
            /\ scanFound' = scanFound
            /\ scanOrigin' = scanOrigin
            /\ frequencyBeforeScan' = frequencyBeforeScan
            /\ stationCount' = stationCount]_vars

\* C28: a cancelled scan leaves the presets untouched. With no handler
\* that edits presets enabled, every step from one scanning state to
\* another leaves the collection as it was, and the step of the
\* scanStop-success callback leaves it as it was and ends with the device
\* playing at the frequency that was tuned when the scan was launched.
C28_CancelLeavesPresets ==
    [][/\ (radioState = RADIO_STATE_SCAN /\ radioState' = RADIO_STATE_SCAN) =>
            stationList' = stationList
       /\ last'.op = "scanStopSuccess" =>
            /\ stationList' = stationList
            /\ dbStations' = dbStations
            /\ radioState' = RADIO_STATE_PLAY
            /\ radioFrequency' = scanOrigin]_vars

\* C29: whenever the device does not scan, the restore point of the scan
\* holds its unset value 0.
C29_RestorePointOnlyWhileScanning ==
    radioState # RADIO_STATE_SCAN => frequencyBeforeScan = 0

\* C30: the count reported with a progress notification is the number of
\* frequency-found callbacks since the most recent scanStart: scanStart
\* sets it to 0, each frequency-found callback reports one more than
\* before, and no other step of a running scan changes it; the count
\* reported by onFinished is the length of the list it delivers.
C30_CountFollowsFound ==
    [][LET found == Len(scanFound') = Len(scanFound) + 1
           started == calls' # <<>> /\ calls'[1].fn = "scanStart"
           finished == last'.op = "onFinished"
       IN  /\ found => stationCount' = stationCount + 1
           /\ started => stationCount' = 0
           /\ finished => stationCount' = Len(last'.frequencies)
           /\ ~(found \/ started \/ finished) => stationCount' = stationCount]_vars

\* Two frequencies were found by the running scan, the second after the
\* scan button was pressed again: the count is 1.
C30_Witness ==
    /\ radioState = RADIO_STATE_SCAN
    /\ Len(scanFound) = 2
    /\ stationCount = 1

\* ------------------------------------------- properties of the scan progress

C32_FoundKeepsPopup ==
    [][(last'.op = "onFrequencyFound" /\ radioState' = RADIO_STATE_SCAN) =>
            popup' = popup]_vars

\* ------------------------------------------------------- frame properties

\* C33: a manual tune, a preset switch or a switchToFrequency handled
\* while the device scans calls no device primitive and leaves the device,
\* the last frequency in memory and in the storage, and the flag of the
\* seek buttons as they were.
C33_TuneWhileScanningChangesNothing ==
    [][(/\ calls' # <<>>
        /\ calls'[1].fn = "start"
        /\ calls'[1].by = "tune"
        /\ calls'[1].state = RADIO_STATE_SCAN) =>
            /\ ~calls'[1].device
            /\ UNCHANGED <<radioState, radioFrequency, lastFrequency,
                           dbLastFrequency, buttonBlock>>]_vars

NextScanEnds ==
    \/ ScanBtnClick
    \/ CancelClick
    \/ OkClick
    \/ \E frequency \in DeviceBand : ScanFound(frequency)
    \/ ScanFinished
    \/ ScanStopSuccess
    \/ ScanStopError

\* These on a device that ends every scan it runs: onfinished stays
\* enabled for as long as the device scans, and the device delivers it
\* unless a confirmed scanStop ends the scan first.
SpecScanEnds == Init /\ [][NextScanEnds]_vars /\ WF_vars(ScanFinished)

\* C35: every scan ends. The step that processes onFinished with a list
\* that is not empty leaves the device playing at the first frequency of
\* the list, the step that processes the scanStop-success callback leaves
\* it playing at the recorded restore point, and a device that scans
\* eventually plays.
C35_EveryScanEnds ==
    /\ [][(last'.op = "onFinished" /\ last'.frequencies # <<>>) =>
            (radioState' = RADIO_STATE_PLAY
                /\ radioFrequency' = last'.frequencies[1])]_vars
    /\ [][last'.op = "scanStopSuccess" =>
            (radioState' = RADIO_STATE_PLAY
                /\ radioFrequency' = frequencyBeforeScan)]_vars
    /\ (radioState = RADIO_STATE_SCAN ~> radioState = RADIO_STATE_PLAY)

\* A scan that found a frequency was cancelled, and the device plays.
C35_Witness ==
    /\ last.op = "scanStopSuccess"
    /\ radioState = RADIO_STATE_PLAY
    /\ radioFrequency = last.frequency
    /\ stationCount > 0

\* ------------------------------------------- properties of the preset buttons

\* C36: whenever the next and previous preset buttons are enabled, the
\* collection holds at least two presets.
C36_ButtonsNeedTwoPresets == stationButtons => Len(stationList) >= 2

\* ------------------------------------------------------------------- mute

\* setMuted that mutes whatever it is given.
setMutedAlways(isMuted) == TRUE

\* radio.js setMuted(isMuted): "radio.mute = isMuted", the value the mute
\* setting of the device takes.
setMuted(isMuted) == isMuted

\* radio.js setMuted(isMuted), which main.js onMuteBtnClick() calls with
\* true and false in turn.
SetMuted(isMuted) ==
    /\ phase = "run"
    /\ radioMute' = setMuted(isMuted)
    /\ calls' = <<SessionCall("setMuted", "onMuteBtnClick", radioState, TRUE)>>
    /\ last' = [NoCall EXCEPT !.op = "setMuted", !.ret = isMuted]
    /\ UNCHANGED <<storeVars, idbVars, phase, frequencyLowerBound, frequencyUpperBound,
                   deviceVars, sessionVars, viewVars>>

\* setMuted next to stop() and the handlers that tune and scan.
NextMute ==
    \/ \E isMuted \in BOOLEAN : SetMuted(isMuted)
    \/ NextStop

SpecMute == Init /\ [][NextMute]_vars

\* C37: setMuted(b) makes b the mute setting of the device, whatever the
\* device does, and leaves the state and frequency of the device, the scan
\* session, the presets, the last frequency, the storage and the view as
\* they were.
C37_SetMutedOnlyMutes ==
    [][last'.op = "setMuted" =>
        /\ radioMute' = last'.ret
        /\ UNCHANGED <<storeVars, frequencyLowerBound, frequencyUpperBound,
                       deviceVars, sessionVars, viewVars>>]_vars

\* The device was muted while it scanned.
C37_Witness ==
    /\ last.op = "setMuted"
    /\ last.ret = TRUE
    /\ radioMute
    /\ radioState = RADIO_STATE_SCAN
    /\ stationCount > 0

\* ---------------------------------------------- properties of the startup load

\* C38: when the storage is ready as the store is initialized, the reads
\* of both keys are issued at once; while the storage is not ready no read
\* is issued; and the step in which the storage becomes ready issues the
\* reads of both keys, each for the value the storage holds then.
C38_ReadsIssuedWhenReady ==
    /\ idbReady => {r.key : r \in reads} = {"stations", "lastFrequency"}
    /\ [](~idbReady => reads = {})
    /\ [][(~idbReady /\ idbReady') =>
            /\ {r.key : r \in reads'} = {"stations", "lastFrequency"}
            /\ \A r \in reads' :
                    r.value = IF r.key = "stations" THEN dbStations
                              ELSE <<dbLastFrequency>>]_vars

\* The storage became ready after the user had named one station: both
\* reads are outstanding, and the one of the presets carries that preset.
C38_Witness ==
    /\ idbReady
    /\ Cardinality(reads) = 2
    /\ Len(stationList) = 1
    /\ \E r \in reads : r.key = "stations" /\ r.value = <<Stringify(stationList)>>

\* ------------------------------------------------- properties of the lookup

\* C39: getStationName(f) returns the name of the preset whose frequency
\* is f, and "UNNAMED" when the collection holds no preset at f; it leaves
\* the collection, the last frequency and the storage as they were.
C39_GetStationName ==
    [][last'.op = "getStationName" =>
        /\ UNCHANGED storeVars
        /\ LET hits == {i \in 1..Len(stationList) :
                            stationList[i].frequency = last'.frequency}
           IN  IF hits = {} THEN last'.ret = UNNAMED
               ELSE \A i \in hits : last'.ret = stationList[i].name]_vars

\* The name of the second of two presets with different names was asked
\* for.
C39_Witness ==
    /\ last.op = "getStationName"
    /\ Len(stationList) = 2
    /\ last.frequency = stationList[2].frequency
    /\ last.ret = stationList[2].name
    /\ stationList[1].name # stationList[2].name

====
